---- MODULE Spec2Model ----
(***************************************************************************)
(* DNSpeedy: the concurrent probing engine of dnspeedy.py.                 *)
(* DNSSpeedTester.run_test submits one _test_dns_and_update task per entry *)
(* of dns_servers to a ThreadPoolExecutor; each task probes its server and *)
(* feeds the outcome to _update_heap, which keeps the 10 fastest servers   *)
(* in the heapq-managed list fastest_dns under self.lock.                  *)
(***************************************************************************)
EXTENDS Integers, Sequences, FiniteSets, TLC

\* ---------------------------------------------------------------- bounds
MaxN == 11          \* longest candidate list explored
MaxWorkers == 2     \* largest max_workers explored
MaxLat == 2         \* largest finite "Query time" explored
MaxTopN == 10       \* largest --top-n explored

\* ------------------------------------------------------- program constants
K == 10             \* capacity of fastest_dns (the literal 10 of _update_heap)

Inf == MaxLat + 1   \* float('inf'): above every finite latency
Lat == 1..MaxLat
Outcomes == Lat \cup {Inf}
Threads == 1..MaxN  \* worker threads the executor could ever start
MainThread == MaxN + 1         \* the thread that runs run_test
ProbeKinds == {"match", "nomatch", "timeout", "error"}

VARIABLES
    dns_servers,    \* self.dns_servers: the candidate list; an address is a
                    \* number, ordered as Python orders the address strings
    outcome,        \* environment: the latency dig measures for the i-th entry
    max_workers,    \* argument of run_test
    main_pc,        \* position of the thread running run_test
    submitted,      \* number of entries of dns_servers already submitted
    work_queue,     \* executor._work_queue: submitted, not yet started tasks
    num_threads,    \* len(executor._threads)
    future,         \* state of the i-th future
    wpc,            \* position of each worker thread
    wtask,          \* the task (index in dns_servers) a worker runs
    wrt,            \* response_time local of the worker's task
    lock,           \* the threads inside "with self.lock"
    results,        \* self.results
    fastest_dns,    \* self.fastest_dns
    fastest_servers,\* return value of run_test
    pbar,           \* tqdm counter
    applied,        \* main: the list handed to set_system_dns (<<>>: no call)
    sorts,          \* history: executions of the sort of line 117
    probes,         \* history: _test_dns_speed invocations per entry
    inserts         \* history: the response_time of each completed
                    \* _update_heap call, per entry

vars == <<dns_servers, outcome, max_workers, main_pc, submitted, work_queue,
          num_threads, future, wpc, wtask, wrt, lock, results, fastest_dns,
          fastest_servers, pbar, applied, sorts, probes, inserts>>

\* ------------------------------------------------------------ heapq
\* Python evaluates the arguments of a call once, before the call. The loops
\* below bind each new value of a loop variable through a singleton set
\* (CHOOSE r \in {F(h) : h \in {e}} : TRUE is F(e) with e evaluated once).

\* Python compares the tuples (-response_time, dns_server) lexicographically.
TupleLess(x, y) == x[1] < y[1] \/ (x[1] = y[1] /\ x[2] < y[2])

RECURSIVE SiftDownLoop(_, _, _, _)
SiftDownLoop(heap, newitem, startpos, pos) ==
    IF pos > startpos /\ TupleLess(newitem, heap[pos \div 2])
    THEN CHOOSE r \in {SiftDownLoop(h, newitem, startpos, pos \div 2) :
                        h \in {[heap EXCEPT ![pos] = heap[pos \div 2]]}} : TRUE
    ELSE [heap EXCEPT ![pos] = newitem]

\* heapq._siftdown (positions are 1-based here)
siftdown(heap, startpos, pos) == SiftDownLoop(heap, heap[pos], startpos, pos)

RECURSIVE SiftUpLoop(_, _, _, _)
SiftUpLoop(heap, newitem, startpos, pos) ==
    LET childpos == 2 * pos
        rightpos == childpos + 1
        c == IF rightpos <= Len(heap) /\ ~TupleLess(heap[childpos], heap[rightpos])
             THEN rightpos ELSE childpos
    IN IF childpos <= Len(heap)
       THEN CHOOSE r \in {SiftUpLoop(h, newitem, startpos, p) :
                           h \in {[heap EXCEPT ![pos] = heap[c]]}, p \in {c}} : TRUE
       ELSE siftdown([heap EXCEPT ![pos] = newitem], startpos, pos)

\* heapq._siftup
siftup(heap, pos) == SiftUpLoop(heap, heap[pos], pos, pos)

\* heapq.heappush
heappush(heap, item) == siftdown(Append(heap, item), 1, Len(heap) + 1)

\* heapq.heappushpop (the popped item is discarded by the caller)
heappushpop(heap, item) ==
    IF heap # <<>> /\ TupleLess(heap[1], item)
    THEN siftup([heap EXCEPT ![1] = item], 1)
    ELSE heap


\* ------------------------------------------------------- pure helpers
\* faulty variant: the "except Exception" handler is missing, the error propagates
TestDnsSpeedRaises(kind, t) ==
    IF kind = "match" THEN [raised |-> FALSE, rt |-> t]
    ELSE IF kind = "error" THEN [raised |-> TRUE, rt |-> Inf]
    ELSE [raised |-> FALSE, rt |-> Inf]

\* _test_dns_speed: what the call returns for each way dig can end.
\* kind "match": the regex found "Query time: t msec"; "nomatch": it did not;
\* "timeout": subprocess.TimeoutExpired; "error": any other Exception.
\* raised = TRUE would mean the exception leaves _test_dns_speed.
TestDnsSpeed(kind, t) ==
    IF kind = "match"
    THEN [raised |-> FALSE, rt |-> t]
    ELSE [raised |-> FALSE, rt |-> Inf]

\* the ways dig can end for an entry whose measured latency is o
KindsOf(o) == {k \in ProbeKinds : (k = "match") <=> (o # Inf)}

\* faulty variant: the block is entered without taking the lock
LockIgnored(l) == TRUE

\* "with self.lock": the lock can be taken only when nobody holds it
LockAvailable(l) == l = {}

\* faulty variant: off by one, len(self.fastest_dns) <= 10
HasRoomOffByOne(heap) == Len(heap) <= K

\* line 77: len(self.fastest_dns) < 10
HasRoom(heap) == Len(heap) < K

\* faulty variant: the comparison is not strict
IsFasterOrTied(rt, heap) == (0 - rt) >= heap[1][1]

\* faulty variant: the comparison is the wrong way round
IsSlower(rt, heap) == (0 - rt) < heap[1][1]

\* line 81: -response_time > self.fastest_dns[0][0]
IsFaster(rt, heap) == (0 - rt) > heap[1][1]

\* faulty variant: the response time is pushed without the negation
PushEntryRaw(heap, rt, server) == heappush(heap, <<rt, server>>)

\* line 78: heapq.heappush(self.fastest_dns, (-response_time, dns_server))
PushEntry(heap, rt, server) == heappush(heap, <<0 - rt, server>>)

\* faulty variant: the last slot of the heap is dropped instead of its top
ReplaceLastSlot(heap, rt, server) ==
    heappush(SubSeq(heap, 1, Len(heap) - 1), <<0 - rt, server>>)

\* faulty variant: heappush instead of heappushpop, nothing is evicted
ReplaceWorstNoPop(heap, rt, server) == heappush(heap, <<0 - rt, server>>)

\* line 82: heapq.heappushpop(self.fastest_dns, (-response_time, dns_server))
ReplaceWorst(heap, rt, server) == heappushpop(heap, <<0 - rt, server>>)

\* faulty variant: the key is the stored priority, the negation is forgotten
SortKeyRaw(x) == x[1]

\* line 117 key: lambda x: -x[0]
SortKey(x) == 0 - x[1]

\* one step of a stable insertion: x goes after every element whose key is <= its own
RECURSIVE InsertStable(_, _)
InsertStable(s, x) ==
    IF s = <<>> THEN <<x>>
    ELSE IF SortKey(s[Len(s)]) <= SortKey(x) THEN Append(s, x)
    ELSE CHOOSE r \in {Append(InsertStable(front, x), s[Len(s)]) :
                        front \in {SubSeq(s, 1, Len(s) - 1)}} : TRUE

RECURSIVE SortFrom(_, _, _)
SortFrom(acc, s, i) ==
    IF i > Len(s) THEN acc
    ELSE CHOOSE r \in {SortFrom(a, s, i + 1) : a \in {InsertStable(acc, s[i])}} : TRUE

\* faulty variant: the list is returned in heap order, unsorted
Unsorted(s) == s

\* line 117: list.sort(key=...) is stable and ascending in the key
SortedByKey(s) == SortFrom(<<>>, s, 1)

\* faulty variant: the comprehension stops one entry short
ServersOfButLast(s) == [i \in 1..(Len(s) - 1) |-> s[i][2]]

\* line 118: [server for _, server in self.fastest_dns]
ServersOf(s) == [i \in 1..Len(s) |-> s[i][2]]

\* faulty variant: the last entry of the list is not submitted
NumTasksButLast(servers) == IF Len(servers) = 0 THEN 0 ELSE Len(servers) - 1

\* line 111: the comprehension submits one task per entry of self.dns_servers
NumTasks(servers) == Len(servers)

\* faulty variant: every submit starts a thread
MaySpawnAlways(n, limit) == TRUE

\* line 113: wait(futures) returns when each of the first k futures is done
AllDone(fut, k) == \A i \in 1..k : fut[i] \in {"finished", "raised"}

\* line 109, __exit__: shutdown(wait=True) returns when the queue is drained
\* and every worker thread has ended its task
Joined(pcs, queue) ==
    queue = <<>> /\ \A w \in DOMAIN pcs : pcs[w] \in {"none", "idle"}

\* faulty variant: the sort follows the submits without wait or shutdown
AfterSubmitNoWait == "l116"

\* lines 111-113: after the submits run_test waits for the futures
AfterSubmit == "l113"

\* faulty variant: the lock is kept when the block ends
UnlockNever(l, t) == l

\* end of "with self.lock": the thread gives the lock back
Unlock(l, t) == l \ {t}

\* line 167: fastest_servers[:top_n]
TopSlice(servers, top_n) ==
    SubSeq(servers, 1, IF top_n < Len(servers) THEN top_n ELSE Len(servers))

\* lines 174-175: what main hands to set_system_dns (<<>>: it is not called)
Forwarded(servers, set_dns) ==
    IF set_dns /\ servers # <<>> THEN servers ELSE <<>>

\* ThreadPoolExecutor._adjust_thread_count: a new thread only below max_workers
MaySpawn(n, limit) == n < limit

\* what lines 77 and 81 decide for a measurement: push, replace or discard
Branch(rt, heap) ==
    IF HasRoom(heap) THEN "l78"
    ELSE IF IsFaster(rt, heap) THEN "l82" ELSE "skip"

\* lines 77-82: what one _update_heap call does to the heap
UpdateHeap(heap, rt, server) ==
    IF Branch(rt, heap) = "l78" THEN PushEntry(heap, rt, server)
    ELSE IF Branch(rt, heap) = "l82" THEN ReplaceWorst(heap, rt, server)
    ELSE heap

\* the response_time _test_dns_speed returns when dig measures o
RtOf(o) == TestDnsSpeed(CHOOSE k \in KindsOf(o) : TRUE, o).rt

\* the heap after the measurements of a candidate list were inserted one
\* after the other, in list order (what a single worker does)
RECURSIVE InsertAll(_, _, _, _)
InsertAll(heap, servers, outs, i) ==
    IF i > Len(servers) THEN heap
    ELSE InsertAll(UpdateHeap(heap, RtOf(outs[i]), servers[i]), servers, outs, i + 1)

\* lines 111-117 with one worker: insert in list order, then sort
SequentialRun(servers, outs) == SortedByKey(InsertAll(<<>>, servers, outs, 1))

\* ------------------------------------------------------------ inputs
\* Probe outcomes of a run: the first c entries measure a, the others b.
StepSeq(n, c, a, b) == [i \in 1..n |-> IF i <= c THEN a ELSE b]

\* where the outcome changes: nowhere, after the first entry, before the
\* last entry
CutPoints(n) == {c \in {0, 1, n - 1} : c >= 0}

OutcomeLists(n) ==
    {StepSeq(n, c, a, b) : c \in CutPoints(n), a \in Outcomes, b \in Outcomes}

\* Candidate files: addresses descending, or ascending with the last line
\* repeating the first (_load_dns_servers keeps every non-empty line).
ServerLists(n) ==
    { [i \in 1..n |-> n + 1 - i],
      [i \in 1..n |-> IF i = n THEN 1 ELSE i] }

\* a line that is empty once stripped
BlankLine == 0

\* the lines of the file: the addresses, with a blank line at the end or
\* after the first address
DnsFiles(n) ==
    {Append(s, BlankLine) : s \in ServerLists(n)}
    \cup {<<s[1], BlankLine>> \o SubSeq(s, 2, n) : s \in {t \in ServerLists(n) : n > 0}}

\* _load_dns_servers: every line that is not empty once stripped, in file
\* order; nothing is removed for naming an address twice
LoadDnsServers(lines) == SelectSeq(lines, LAMBDA a : a # BlankLine)

\* ------------------------------------------------------------ Init
\* __init__ (lines 26-31) and the entry of run_test.
Init ==
    /\ \E n \in 0..MaxN :
          /\ dns_servers \in {LoadDnsServers(f) : f \in DnsFiles(n)}
          /\ outcome \in OutcomeLists(n)
          /\ future = [i \in 1..n |-> "none"]
          /\ probes = [i \in 1..n |-> 0]
          /\ inserts = [i \in 1..n |-> <<>>]
    /\ max_workers \in 1..MaxWorkers
    /\ main_pc = "l111"
    /\ submitted = 0
    /\ work_queue = <<>>
    /\ num_threads = 0
    /\ wpc = [w \in Threads |-> "none"]
    /\ wtask = [w \in Threads |-> 0]
    /\ wrt = [w \in Threads |-> 0]
    /\ lock = {}
    /\ results = <<>>
    /\ fastest_dns = <<>>
    /\ fastest_servers = <<>>
    /\ pbar = 0
    /\ applied = <<>>
    /\ sorts = 0

\* ------------------------------------------------------------ main thread
inputs == <<dns_servers, outcome, max_workers>>
shared == <<results, fastest_dns>>
history == <<probes, inserts>>

\* threads alive after k calls of executor.submit from an executor with n
RECURSIVE ThreadsAfter(_, _, _)
ThreadsAfter(n, k, limit) ==
    IF k = 0 THEN n
    ELSE ThreadsAfter(IF MaySpawn(n, limit) THEN n + 1 ELSE n, k - 1, limit)

\* line 111: the comprehension calls executor.submit for every entry, in list
\* order; each call queues its task and starts a thread while fewer than
\* max_workers exist. Workers dequeue in FIFO order, so a worker that starts
\* while the loop still runs sees the same tasks in the same order.
Submit ==
    /\ main_pc = "l111"
    /\ submitted' = NumTasks(dns_servers)
    /\ work_queue' = [i \in 1..NumTasks(dns_servers) |-> i]
    /\ future' = [i \in 1..Len(dns_servers) |->
                    IF i <= NumTasks(dns_servers) THEN "pending" ELSE "none"]
    /\ num_threads' = ThreadsAfter(num_threads, NumTasks(dns_servers), max_workers)
    /\ wpc' = [w \in Threads |-> IF w <= num_threads' THEN "idle" ELSE "none"]
    /\ main_pc' = AfterSubmit
    /\ UNCHANGED <<inputs, applied, sorts, wtask, wrt, lock, shared, fastest_servers, pbar,
                   history>>

\* line 113: concurrent.futures.wait returns once every submitted future is done
Wait ==
    /\ main_pc = "l113"
    /\ AllDone(future, submitted)
    /\ main_pc' = "l109exit"
    /\ UNCHANGED <<inputs, applied, sorts, submitted, work_queue, num_threads,
                   future, wpc, wtask, wrt, lock, shared, fastest_servers, pbar,
                   history>>

\* exit of "with ThreadPoolExecutor": shutdown(wait=True) joins the workers
Shutdown ==
    /\ main_pc = "l109exit"
    /\ Joined(wpc, work_queue)
    /\ wpc' = [w \in Threads |-> IF wpc[w] = "idle" THEN "exited" ELSE wpc[w]]
    /\ main_pc' = "l116"
    /\ UNCHANGED <<inputs, applied, sorts, submitted, work_queue, num_threads,
                   future, wtask, wrt, lock, shared, fastest_servers, pbar,
                   history>>

\* line 116: with self.lock
FinalAcquire ==
    /\ main_pc = "l116"
    /\ LockAvailable(lock)
    /\ lock' = lock \cup {MainThread}
    /\ main_pc' = "l117"
    /\ UNCHANGED <<inputs, applied, sorts, submitted, work_queue, num_threads,
                   future, wpc, wtask, wrt, shared, fastest_servers, pbar,
                   history>>

\* line 117: self.fastest_dns.sort(key=lambda x: -x[0])
FinalSort ==
    /\ main_pc = "l117"
    /\ fastest_dns' = SortedByKey(fastest_dns)
    /\ sorts' = sorts + 1
    /\ main_pc' = "l118"
    /\ UNCHANGED <<inputs, applied, submitted, work_queue, num_threads,
                   future, wpc, wtask, wrt, lock, results, fastest_servers, pbar,
                   history>>

\* lines 118-120: extract the servers, leave the with block, return
FinalExtract ==
    /\ main_pc = "l118"
    /\ fastest_servers' = ServersOf(fastest_dns)
    /\ lock' = Unlock(lock, MainThread)
    /\ main_pc' = "done"
    /\ UNCHANGED <<inputs, applied, sorts, submitted, work_queue, num_threads,
                   future, wpc, wtask, wrt, shared, pbar, history>>

\* main, lines 164-175: run_test has returned; the list is cut to top_n and,
\* with --set-dns and a non-empty list, handed to set_system_dns
Report ==
    /\ main_pc = "done"
    /\ \E top_n \in 1..MaxTopN, set_dns \in BOOLEAN :
         applied' = Forwarded(TopSlice(fastest_servers, top_n), set_dns)
    /\ main_pc' = "exit"
    /\ UNCHANGED <<inputs, sorts, submitted, work_queue, num_threads, future,
                   wpc, wtask, wrt, lock, shared, fastest_servers, pbar,
                   history>>

\* ------------------------------------------------------------ workers
mainvars == <<main_pc, submitted, fastest_servers, applied, sorts>>

\* _worker: work_queue.get(); the task starts and calls _test_dns_speed (line 91)
Dequeue(w) ==
    /\ wpc[w] = "idle"
    /\ work_queue # <<>>
    /\ LET i == Head(work_queue) IN
         /\ wtask' = [wtask EXCEPT ![w] = i]
         /\ future' = [future EXCEPT ![i] = "running"]
         /\ probes' = [probes EXCEPT ![i] = @ + 1]
    /\ work_queue' = Tail(work_queue)
    /\ wpc' = [wpc EXCEPT ![w] = "l91"]
    /\ UNCHANGED <<inputs, mainvars, num_threads, wrt, lock,
                   shared, pbar, inserts>>

\* lines 47-62 and 91: dig ends in one of the ways the environment allows
ProbeReturn(w) ==
    /\ wpc[w] = "l91"
    /\ \E kind \in KindsOf(outcome[wtask[w]]) :
         LET r == TestDnsSpeed(kind, outcome[wtask[w]]) IN
           IF r.raised
           THEN /\ future' = [future EXCEPT ![wtask[w]] = "raised"]
                /\ wpc' = [wpc EXCEPT ![w] = "idle"]
                /\ wtask' = [wtask EXCEPT ![w] = 0]
                /\ UNCHANGED wrt
           ELSE /\ wrt' = [wrt EXCEPT ![w] = r.rt]
                /\ wpc' = [wpc EXCEPT ![w] = "l73"]
                /\ UNCHANGED <<future, wtask>>
    /\ UNCHANGED <<inputs, mainvars, work_queue, num_threads, lock, shared,
                   pbar, history>>

\* lines 73-81: with self.lock; results[dns_server] = response_time; the
\* size check and the comparison with the heap top choose the branch
Enter(w) ==
    /\ wpc[w] = "l73"
    /\ LockAvailable(lock)
    /\ lock' = lock \cup {w}
    /\ results' = (dns_servers[wtask[w]] :> wrt[w]) @@ results
    /\ wpc' = [wpc EXCEPT ![w] = Branch(wrt[w], fastest_dns)]
    /\ UNCHANGED <<inputs, mainvars, work_queue, num_threads,
                   future, wtask, wrt, fastest_dns, pbar, history>>

\* the with block ends and _update_heap returns; line 93 pbar.update(1); the
\* future is set; the worker returns to the queue
Leave(w) ==
    /\ lock' = Unlock(lock, w)
    /\ inserts' = [inserts EXCEPT ![wtask[w]] = Append(@, wrt[w])]
    /\ pbar' = pbar + 1
    /\ future' = [future EXCEPT ![wtask[w]] = "finished"]
    /\ wpc' = [wpc EXCEPT ![w] = "idle"]
    /\ wtask' = [wtask EXCEPT ![w] = 0]
    /\ wrt' = [wrt EXCEPT ![w] = 0]
    /\ UNCHANGED <<inputs, mainvars, work_queue, num_threads, results, probes>>

\* line 78: heappush, then the call returns
Push(w) ==
    /\ wpc[w] = "l78"
    /\ fastest_dns' = PushEntry(fastest_dns, wrt[w], dns_servers[wtask[w]])
    /\ Leave(w)

\* line 82: heappushpop, then the call returns
Replace(w) ==
    /\ wpc[w] = "l82"
    /\ fastest_dns' = ReplaceWorst(fastest_dns, wrt[w], dns_servers[wtask[w]])
    /\ Leave(w)

\* line 81 false: the measurement is discarded, the call returns
Discard(w) ==
    /\ wpc[w] = "skip"
    /\ UNCHANGED fastest_dns
    /\ Leave(w)

Worker(w) ==
    \/ Dequeue(w) \/ ProbeReturn(w) \/ Enter(w)
    \/ Push(w) \/ Replace(w) \/ Discard(w)

\* the steps of the main thread
Main ==
    \/ Submit \/ Wait \/ Shutdown
    \/ FinalAcquire \/ FinalSort \/ FinalExtract \/ Report

Next ==
    \/ Submit \/ Wait \/ Shutdown
    \/ FinalAcquire \/ FinalSort \/ FinalExtract \/ Report
    \/ \E w \in Threads : Worker(w)

Spec == Init /\ [][Next]_vars

\* Every probe returns (subprocess.run has timeout=2, line 47) and the
\* operating system keeps scheduling every thread that can take a step.
FairSpec ==
    /\ Init /\ [][Next]_vars
    /\ WF_vars(Main)
    /\ \A w \in Threads : WF_vars(Worker(w))

\* ------------------------------------------------------------ vocabulary
Min(a, b) == IF a <= b THEN a ELSE b

N == Len(dns_servers)

\* latency of a member of fastest_dns
LatOf(x) == 0 - x[1]

HeapLats(heap) == [i \in 1..Len(heap) |-> LatOf(heap[i])]

RECURSIVE InsertNum(_, _)
InsertNum(s, x) ==
    IF s = <<>> THEN <<x>>
    ELSE IF s[Len(s)] <= x THEN Append(s, x)
    ELSE Append(InsertNum(SubSeq(s, 1, Len(s) - 1), x), s[Len(s)])

RECURSIVE SortNumsFrom(_, _, _)
SortNumsFrom(acc, s, i) ==
    IF i > Len(s) THEN acc ELSE SortNumsFrom(InsertNum(acc, s[i]), s, i + 1)

\* a sequence of numbers in ascending order (a multiset, canonically)
SortNums(s) == SortNumsFrom(<<>>, s, 1)

RECURSIVE Flatten(_, _)
Flatten(f, i) == IF i > Len(f) THEN <<>> ELSE f[i] \o Flatten(f, i + 1)

\* the latencies of all measurements whose Insert has completed
InsertedLats == Flatten(inserts, 1)

NumInserted == Len(InsertedLats)

Finite(s) == {i \in 1..Len(s) : s[i] # Inf}

\* a member of fastest_dns as an (address, latency) pair
PairOf(x) == <<x[2], LatOf(x)>>
PairSet(heap) == {PairOf(heap[i]) : i \in 1..Len(heap)}

\* ------------------------------------------------------------ claims

\* C1: in every reachable state fastest_dns holds at most K entries.
C1_AtMostK == Len(fastest_dns) <= K

\* C1 witness: the set is full and a further measurement has been handled.
C1_Witness == Len(fastest_dns) = K /\ NumInserted > K

\* the measurements whose Insert has completed, as (address, latency) pairs
InsertedPairs(bound) ==
    {<<dns_servers[i], inserts[i][1]>> :
        i \in {j \in 1..N : inserts[j] # <<>> /\ inserts[j][1] <= bound}}

\* C2: after any number of completed inserts the latencies held in
\* fastest_dns are the min(N, K) lowest latencies inserted so far; when the
\* K-th and (K+1)-th lowest differ (as they do when the latencies are
\* distinct) the members are exactly the K smallest measurements.
C2_LowestLatencies ==
    LET sorted == SortNums(InsertedLats) IN
    /\ SortNums(HeapLats(fastest_dns)) = SubSeq(sorted, 1, Min(NumInserted, K))
    /\ NumInserted <= K => PairSet(fastest_dns) = InsertedPairs(Inf)
    /\ (NumInserted > K /\ sorted[K] < sorted[K + 1]) =>
          PairSet(fastest_dns) = InsertedPairs(sorted[K])

\* C2 witness: more than K inserts completed, and one of them evicted a
\* slower member (a discarded latency is above the kept maximum).
C2_Witness ==
    /\ NumInserted > K
    /\ main_pc = "l113"
    /\ \E i \in 1..Len(fastest_dns) : LatOf(fastest_dns[i]) < Inf
    /\ SortNums(InsertedLats)[K + 1] > SortNums(InsertedLats)[K]
    /\ inserts[N] # <<>> /\ inserts[N][1] < SortNums(InsertedLats)[K + 1]

\* C3: the sequence run_test returns has exactly min(N, K) entries.
C3_OutputLength ==
    main_pc = "done" => Len(fastest_servers) = Min(N, K)

\* C3 witness: a finished run over more than K candidates.
C3_Witness == main_pc = "done" /\ N > K /\ Len(fastest_servers) = K

\* C4: the returned sequence is ascending in latency, failures last.
C4_Ascending ==
    main_pc = "done" =>
        /\ fastest_servers = ServersOf(fastest_dns)
        /\ \A i, j \in 1..Len(fastest_dns) :
              i < j => LatOf(fastest_dns[i]) <= LatOf(fastest_dns[j])

\* C4 witness: a finished run whose output mixes finite and failed entries.
C4_Witness ==
    /\ main_pc = "done"
    /\ \E i, j \in 1..Len(fastest_dns) :
          /\ LatOf(fastest_dns[i]) < LatOf(fastest_dns[j])
          /\ LatOf(fastest_dns[j]) = Inf

\* ------------------------------------------------- orders of the candidates
Reversed(n) == [i \in 1..n |-> n + 1 - i]
Rotated(n, k) == [i \in 1..n |-> ((i + k - 1) % n) + 1]
Swapped(n, k) == [i \in 1..n |-> IF i = k THEN k + 1 ELSE IF i = k + 1 THEN k ELSE i]

\* permutations of 1..n: the reversal, the rotations, the adjacent swaps
Perms(n) ==
    {Reversed(n)} \cup {Rotated(n, k) : k \in 1..n}
                  \cup {Swapped(n, k) : k \in 1..(n - 1)}

Permuted(s, p) == [i \in 1..Len(s) |-> s[p[i]]]

RECURSIVE InsertTuple(_, _)
InsertTuple(s, x) ==
    IF s = <<>> THEN <<x>>
    ELSE IF ~TupleLess(x, s[Len(s)]) THEN Append(s, x)
    ELSE Append(InsertTuple(SubSeq(s, 1, Len(s) - 1), x), s[Len(s)])

RECURSIVE SortTuplesFrom(_, _, _)
SortTuplesFrom(acc, s, i) ==
    IF i > Len(s) THEN acc ELSE SortTuplesFrom(InsertTuple(acc, s[i]), s, i + 1)

\* the members of a heap as a multiset (canonical order)
Members(heap) == SortTuplesFrom(<<>>, heap, 1)

\* the K-th and the (K+1)-th lowest latency of the candidates differ
NoBoundaryTie ==
    N <= K \/ SortNums(outcome)[K] < SortNums(outcome)[K + 1]

AllDistinct(s) == \A i, j \in 1..Len(s) : i # j => s[i] # s[j]

\* C5 as stated: every order of the candidate list yields the same set of
\* (address, latency) pairs, ties included (here for lists that name no
\* address twice).
C5_SamePairsAnyOrder ==
    (main_pc = "done" /\ AllDistinct(dns_servers)) =>
        \A p \in Perms(N) :
            PairSet(fastest_dns) =
                PairSet(SequentialRun(Permuted(dns_servers, p), Permuted(outcome, p)))

\* C5 amended: every order of the candidate list yields the same multiset of
\* latencies, and the same (address, latency) pairs when the K-th and the
\* (K+1)-th lowest latency differ.
C5_SameLatenciesAnyOrder ==
    main_pc = "done" =>
        \A p \in Perms(N) :
            LET other == SequentialRun(Permuted(dns_servers, p), Permuted(outcome, p))
            IN /\ HeapLats(fastest_dns) = HeapLats(other)
               /\ NoBoundaryTie => Members(fastest_dns) = Members(other)

\* C5 witness: a finished run over more than K candidates, some of them
\* failed, with no tie at the boundary.
C5_Witness ==
    /\ main_pc = "done" /\ N > K /\ NoBoundaryTie
    /\ max_workers > 1
    /\ SortNums(outcome)[1] < SortNums(outcome)[K + 1]

C7_ExactlyOnce ==
    /\ \A i \in 1..N : probes[i] <= 1 /\ Len(inserts[i]) <= 1
    /\ main_pc = "done" =>
          \A i \in 1..N : probes[i] = 1 /\ inserts[i] = <<outcome[i]>>

\* C7 witness: a finished run over more candidates than workers.
C7_Witness ==
    /\ main_pc = "done" /\ N > max_workers
    /\ \A i \in 1..N : probes[i] = 1 /\ Len(inserts[i]) = 1

\* C8: a failed probe raises nothing; its measurement is inserted with
\* infinite latency and every other candidate is inserted too.
C8_FailureIsMeasurement ==
    /\ \A i \in 1..N : future[i] # "raised"
    /\ \A w \in Threads :
          (wpc[w] \in {"l73", "l78", "l82", "skip"} /\ outcome[wtask[w]] = Inf)
              => wrt[w] = Inf
    /\ main_pc = "done" =>
          /\ \A i \in 1..N : outcome[i] = Inf => inserts[i] = <<Inf>>
          /\ \A i \in 1..N : Len(inserts[i]) = 1

\* C8 witness: a finished run whose first probe failed and whose later
\* probes succeeded.
C8_Witness ==
    /\ main_pc = "done" /\ N > 1
    /\ outcome[1] = Inf /\ inserts[1] = <<Inf>>
    /\ outcome[N] # Inf /\ inserts[N] = <<outcome[N]>>

\* C9: when at least K candidates succeed, the returned list holds no
\* failed entry.
C9_NoFailureWhenKSucceed ==
    (main_pc = "done" /\ Cardinality(Finite(outcome)) >= K) =>
        /\ \A i \in 1..Len(fastest_dns) : LatOf(fastest_dns[i]) # Inf
        /\ \A i \in 1..Len(fastest_servers) :
              \E j \in Finite(outcome) : dns_servers[j] = fastest_servers[i]

\* C9 witness: a finished run where the first probe failed, K others
\* succeeded, and the failure is not in the output.
C9_Witness ==
    /\ main_pc = "done" /\ N > K
    /\ outcome[1] = Inf /\ Cardinality(Finite(outcome)) >= K
    /\ \A i \in 1..Len(fastest_dns) : LatOf(fastest_dns[i]) # Inf

InFlight == {w \in Threads : wpc[w] = "l91"}
Running == {i \in 1..N : future[i] = "running"}

\* C10: at most max_workers probes are outstanding at any moment.
C10_BoundedInFlight ==
    /\ Cardinality(InFlight) <= max_workers
    /\ Cardinality(Running) <= max_workers

\* C10 witness: max_workers probes are outstanding together while further
\* candidates wait in the queue.
C10_Witness ==
    /\ max_workers > 1
    /\ Cardinality(InFlight) = max_workers
    /\ work_queue # <<>>

InUpdateHeap == {w \in Threads : wpc[w] \in {"l78", "l82", "skip"}}
BeforeUpdate == {w \in Threads : wpc[w] \in {"l91", "l73"}}
SortBegun == main_pc \in {"l117", "l118", "done", "exit"}

\* C11: the sort of fastest_dns runs exactly once per run; once it has begun
\* no _update_heap call is in progress or still to start (every candidate's
\* insert has completed), and run_test returns only after the sort.
C11_FinalizeOnceAfterInserts ==
    /\ sorts <= 1
    /\ main_pc \in {"l118", "done", "exit"} <=> sorts = 1
    /\ SortBegun =>
          /\ InUpdateHeap = {} /\ BeforeUpdate = {} /\ work_queue = <<>>
          /\ \A i \in 1..N : Len(inserts[i]) = 1
          /\ lock \subseteq {MainThread}

\* C11 witness: the sort has run over a set that took evictions, after
\* two workers shared the inserts.
C11_Witness ==
    /\ main_pc = "l118" /\ sorts = 1
    /\ N > K /\ num_threads > 1
    /\ \A i \in 1..N : Len(inserts[i]) = 1

\* C12: under fair scheduling and returning probes, run_test returns and
\* main ends with the lock free, the queue empty and no worker left waiting
\* for the lock or inside a task.
C12_Terminates ==
    <>(/\ main_pc = "exit"
       /\ lock = {} /\ work_queue = <<>>
       /\ \A w \in Threads : wpc[w] \in {"none", "exited"})

\* C12 witness: main has ended after a run in which every worker thread was
\* started, the set was full, and at least one probe failed.
C12_Witness ==
    /\ main_pc = "exit"
    /\ max_workers > 1 /\ num_threads = max_workers /\ N > K
    /\ \E i \in 1..N : outcome[i] = Inf

\* C13: no two completed _update_heap calls of a run carry the same address,
\* and fastest_dns never holds two entries for one address.
C13_NoAddressTwice ==
    /\ \A i, j \in 1..N :
          (i # j /\ inserts[i] # <<>> /\ inserts[j] # <<>>) =>
              dns_servers[i] # dns_servers[j]
    /\ \A i, j \in 1..Len(fastest_dns) :
          i # j => fastest_dns[i][2] # fastest_dns[j][2]

\* C14: at most one thread is inside a "with self.lock" block; a worker
\* between the checks of lines 77/81 and its push or replace holds the lock,
\* and the branch it chose is still the one the current set calls for (no
\* other insert ran in between); the final sort and extraction hold the lock.
C14_MutualExclusion ==
    /\ Cardinality(lock) <= 1
    /\ \A w \in InUpdateHeap :
          w \in lock /\ wpc[w] = Branch(wrt[w], fastest_dns)
    /\ main_pc \in {"l117", "l118"} => MainThread \in lock

\* C14 witness: one worker is about to push the K-th member while another
\* worker stands at the lock with the measurement that will find the set full.
C14_Witness ==
    \E w, v \in Threads :
        /\ wpc[w] = "l78" /\ w \in lock
        /\ wpc[v] = "l73"
        /\ Len(fastest_dns) = K - 1

\* C15: a worker holds the lock only inside _update_heap: never while its
\* probe is outstanding, while it waits for the lock, or between tasks.
C15_NoLockAcrossProbe ==
    \A w \in Threads :
        wpc[w] \in {"none", "idle", "l91", "l73", "exited"} => w \notin lock

\* C15 witness: one worker's probe is outstanding while another worker is
\* inside _update_heap with the lock, after an earlier insert of the first.
C15_Witness ==
    \E w, v \in Threads :
        /\ wpc[w] = "l91" /\ wtask[w] > max_workers
        /\ wpc[v] \in {"l78", "l82", "skip"} /\ v \in lock

\* how often the tuple t occurs in the heap
Count(heap, t) == Cardinality({i \in 1..Len(heap) : heap[i] = t})

Entries(heap) == {heap[i] : i \in 1..Len(heap)}

\* the largest latency held
MaxLatency(heap) ==
    CHOOSE m \in {LatOf(x) : x \in Entries(heap)} :
        \A x \in Entries(heap) : LatOf(x) <= m

\* after holds the entries of before, the entry old once less and the entry
\* new once more
Exchanged(before, after, old, new) ==
    \A t \in Entries(before) \cup Entries(after) \cup {new} :
        Count(after, t) + (IF t = old /\ old # new THEN 1 ELSE 0)
            = Count(before, t) + (IF t = new /\ old # new THEN 1 ELSE 0)

\* after holds the entries of before and the entry new once more
Added(before, after, new) ==
    \A t \in Entries(after) \cup Entries(before) :
        Count(after, t) = Count(before, t) + (IF t = new THEN 1 ELSE 0)

\* the _update_heap call of worker w returns in this step
Returns(w) == wpc[w] \in {"l78", "l82", "skip"} /\ wpc'[w] = "idle"

NewEntry(w) == <<0 - wrt[w], dns_servers[wtask[w]]>>

InsertStep(w) ==
    /\ Len(fastest_dns) < K =>
          /\ Len(fastest_dns') = Len(fastest_dns) + 1
          /\ Added(fastest_dns, fastest_dns', NewEntry(w))
    /\ (Len(fastest_dns) = K /\ wrt[w] < MaxLatency(fastest_dns)) =>
          /\ Len(fastest_dns') = K
          /\ \E old \in Entries(fastest_dns) :
                /\ LatOf(old) = MaxLatency(fastest_dns)
                /\ Exchanged(fastest_dns, fastest_dns', old, NewEntry(w))

\* C16: an _update_heap call that finds fewer than K entries adds its
\* measurement (a failure too) and the size grows by one; a call that finds
\* K entries and brings a latency strictly below the largest one held removes
\* exactly one entry of that largest latency, adds its own, and keeps every
\* other entry and the size K.
C16_InsertStep ==
    [][\A w \in Threads : Returns(w) => InsertStep(w)]_vars

\* C16 witness: a worker holds the lock in front of a full set whose
\* latencies differ, with a measurement below the largest one, about to
\* replace it.
C16_Witness ==
    \E w \in Threads :
        /\ wpc[w] = "l82" /\ w \in lock
        /\ Len(fastest_dns) = K
        /\ wrt[w] < MaxLatency(fastest_dns)
        /\ \E x \in Entries(fastest_dns) : LatOf(x) < MaxLatency(fastest_dns)

\* C17: an _update_heap call that finds K entries and brings a latency equal
\* to or above the largest one held (a failure among failures included)
\* leaves fastest_dns as it was.
C17_TiesKeepFirst ==
    [][\A w \in Threads :
          (/\ Returns(w)
           /\ Len(fastest_dns) = K
           /\ wrt[w] >= MaxLatency(fastest_dns)) => fastest_dns' = fastest_dns]_vars

\* C17 witness: a worker holds the lock in front of a full set with a
\* measurement that ties with the worst member and an address that sorts
\* after it, and is about to discard it.
C17_Witness ==
    \E w \in Threads :
        /\ wpc[w] = "skip" /\ w \in lock
        /\ Len(fastest_dns) = K
        /\ wrt[w] = MaxLatency(fastest_dns)
        /\ dns_servers[wtask[w]] > fastest_dns[1][2]

\* C18: every address main hands to set_system_dns belongs to a candidate
\* whose probe measured a finite latency.
C18_AppliedAreFinite ==
    \A i \in 1..Len(applied) :
        \E j \in Finite(outcome) : dns_servers[j] = applied[i]

\* C19: whenever the lock is free, every entry of fastest_dns has its server
\* in results with that entry's latency; when run_test has returned, results
\* has exactly one entry per distinct candidate address, holding the latency
\* its probe measured.
C19_ResultsConsistent ==
    /\ lock = {} =>
          \A x \in Entries(fastest_dns) :
              x[2] \in DOMAIN results /\ results[x[2]] = LatOf(x)
    /\ main_pc = "done" =>
          /\ DOMAIN results = {dns_servers[j] : j \in 1..N}
          /\ \A j \in 1..N : results[dns_servers[j]] = outcome[j]

====
